---------------------------- MODULE Spec2Model ----------------------------
(***************************************************************************)
(* Sift: tag extraction (extractTags) and tag-to-phrase matching           *)
(* (findClosestPhraseByTags) of src/lib/claude.ts, with the query          *)
(* orchestration of spec.md sections 4.3 and 4.5 around them.              *)
(*                                                                         *)
(* A JavaScript string is a sequence of one-character strings; a JSON text *)
(* is a sequence of lexical tokens; a JSON value is a record               *)
(* [type, str, items].  Indices into the phrase bank are 0-based as in the *)
(* source.                                                                 *)
(***************************************************************************)
EXTENDS Integers, Sequences, FiniteSets, TLC

(***************************************************************************)
(* Bounds of the model.                                                    *)
(***************************************************************************)
NQueries == 2      \* queries in flight at once
MaxTokens == 5     \* tokens of a model answer drawn exhaustively
MaxTags == 2       \* length of a tag list handed directly to the matcher

(***************************************************************************)
(* Strings.                                                                *)
(***************************************************************************)
UpperChars ==
  <<"A","B","C","D","E","F","G","H","I","J","K","L","M",
    "N","O","P","Q","R","S","T","U","V","W","X","Y","Z">>

LowerChars ==
  <<"a","b","c","d","e","f","g","h","i","j","k","l","m",
    "n","o","p","q","r","s","t","u","v","w","x","y","z">>

\* the lowercase of each uppercase letter
LowerOf == [c \in { UpperChars[k] : k \in DOMAIN UpperChars } |->
              LowerChars[CHOOSE k \in DOMAIN UpperChars : UpperChars[k] = c]]

\* String.prototype.toLowerCase, one character
ToLowerChar(c) == IF c \in DOMAIN LowerOf THEN LowerOf[c] ELSE c

\* String.prototype.toLowerCase
toLowerCase(s) == [k \in 1..Len(s) |-> ToLowerChar(s[k])]

\* String.prototype.includes: t occurs in s as a contiguous substring
includes(s, t) ==
  \E k \in 0..(Len(s) - Len(t)) : SubSeq(s, k + 1, k + Len(t)) = t

(***************************************************************************)
(* The tag vocabulary, src/lib/claude.ts lines 4-11.                       *)
(***************************************************************************)
TAGS ==
  << <<"p","i","a","n","o">>,
     <<"g","u","i","t","a","r">>,
     <<"s","a","d">>,
     <<"m","e","l","a","n","c","h","o","l","i","c">>,
     <<"n","o","s","t","a","l","g","i","c">>,
     <<"h","o","p","e","f","u","l">>,
     <<"p","e","a","c","e","f","u","l">>,
     <<"d","a","r","k">>,
     <<"l","o","n","e","l","y">>,
     <<"s","l","o","w">>,
     <<"m","e","l","l","o","w">>,
     <<"s","l","e","e","p","y">>,
     <<"u","p","b","e","a","t">>,
     <<"g","r","o","o","v","y">>,
     <<"b","o","s","s","a"," ","n","o","v","a">>,
     <<"v","i","n","y","l"," ","c","r","a","c","k","l","e">>,
     <<"a","m","b","i","e","n","t">>,
     <<"s","p","a","c","e","y">>,
     <<"b","a","s","s","-","h","e","a","v","y">>,
     <<"m","i","n","i","m","a","l">>,
     <<"r","a","i","n">>,
     <<"o","c","e","a","n">>,
     <<"n","i","g","h","t">>,
     <<"c","a","f","e">>,
     <<"w","i","n","t","e","r">>,
     <<"h","o","m","e">>,
     <<"n","a","t","u","r","e">>,
     <<"s","p","a","c","e">>,
     <<"c","o","z","y">>,
     <<"w","a","r","m">>,
     <<"d","r","e","a","m","y">>,
     <<"f","o","c","u","s">>,
     <<"j","a","z","z">>,
     <<"c","h","i","l","l">> >>

\* new Set<string>(TAGS): the value TAG_SET is constructed with (line 13)
NewTagSet == { TAGS[k] : k \in DOMAIN TAGS }

(***************************************************************************)
(* JSON values and JSON.parse over token sequences.                        *)
(***************************************************************************)
JString(s) == [type |-> "string", str |-> s, items |-> <<>>]
JNumber == [type |-> "number", str |-> <<>>, items |-> <<>>]
JNull == [type |-> "null", str |-> <<>>, items |-> <<>>]
JObject == [type |-> "object", str |-> <<>>, items |-> <<>>]
JArray(vs) == [type |-> "array", str |-> <<>>, items |-> vs]

Punct(k) == [tok |-> k, str |-> <<>>]
StrTok(s) == [tok |-> "string", str |-> s]

ParseFail == [ok |-> FALSE, v |-> JNull, next |-> 0]
ParseOk(v, n) == [ok |-> TRUE, v |-> v, next |-> n]

RECURSIVE ParseValue(_, _)
RECURSIVE ParseElements(_, _, _)

\* one JSON value starting at token i
ParseValue(toks, i) ==
  IF i > Len(toks) THEN ParseFail
  ELSE LET t == toks[i] IN
    CASE t.tok = "string" -> ParseOk(JString(t.str), i + 1)
      [] t.tok = "number" -> ParseOk(JNumber, i + 1)
      [] t.tok = "null" -> ParseOk(JNull, i + 1)
      [] t.tok = "{" ->
           IF i + 1 <= Len(toks) /\ toks[i + 1].tok = "}"
           THEN ParseOk(JObject, i + 2)
           ELSE ParseFail
      [] t.tok = "[" ->
           IF i + 1 <= Len(toks) /\ toks[i + 1].tok = "]"
           THEN ParseOk(JArray(<<>>), i + 2)
           ELSE ParseElements(toks, i + 1, <<>>)
      [] OTHER -> ParseFail

\* the elements of an array after its "[", up to and including its "]"
ParseElements(toks, i, acc) ==
  LET e == ParseValue(toks, i) IN
  IF ~e.ok \/ e.next > Len(toks) THEN ParseFail
  ELSE CASE toks[e.next].tok = "," ->
              ParseElements(toks, e.next + 1, Append(acc, e.v))
         [] toks[e.next].tok = "]" ->
              ParseOk(JArray(Append(acc, e.v)), e.next + 1)
         [] OTHER -> ParseFail

\* JSON.parse(text): ok = FALSE stands for the SyntaxError it throws
JSONParse(text) ==
  LET r == ParseValue(text, 1) IN
  IF r.ok /\ r.next = Len(text) + 1
  THEN [ok |-> TRUE, v |-> r.v]
  ELSE [ok |-> FALSE, v |-> JNull]


(***************************************************************************)
(* findClosestPhraseByTags, src/lib/claude.ts lines 70-97.                 *)
(***************************************************************************)
RECURSIVE TagLoop(_, _, _, _)

\* for (const tag of tags) { if (phrase.includes(tag.toLowerCase())) score++ }
\* from the k-th tag on; phrase is already lowercased
TagLoop(phrase, tags, k, score) ==
  IF k > Len(tags) THEN score
  ELSE TagLoop(phrase, tags, k + 1,
               IF includes(phrase, toLowerCase(tags[k])) THEN score + 1 ELSE score)

\* a faulty variant of PhraseScore: the tag is tested as given, not lowercased
RECURSIVE TagLoopNoLower(_, _, _, _)
TagLoopNoLower(phrase, tags, k, score) ==
  IF k > Len(tags) THEN score
  ELSE TagLoopNoLower(phrase, tags, k + 1,
                      IF includes(phrase, tags[k]) THEN score + 1 ELSE score)

PhraseScoreNoLower(text, tags) == TagLoopNoLower(toLowerCase(text), tags, 1, 0)

\* the body of the outer loop up to the comparison: the score of one phrase
PhraseScore(text, tags) == TagLoop(toLowerCase(text), tags, 1, 0)

\* a faulty variant of MatchLoop: a later phrase with an equal score replaces the best
RECURSIVE MatchLoopLastWins(_, _, _, _, _)
MatchLoopLastWins(phr, tags, i, bestIndex, bestScore) ==
  IF ~(i < Len(phr)) THEN [bestIndex |-> bestIndex, bestScore |-> bestScore]
  ELSE LET score == PhraseScore(phr[i + 1], tags) IN
       IF score >= bestScore
       THEN MatchLoopLastWins(phr, tags, i + 1, i, score)
       ELSE MatchLoopLastWins(phr, tags, i + 1, bestIndex, bestScore)

RECURSIVE MatchLoop(_, _, _, _, _)

\* for (let i = 0; i < phrases.length; i++) { ... if (score > bestScore) ... }
MatchLoop(phr, tags, i, bestIndex, bestScore) ==
  IF ~(i < Len(phr)) THEN [bestIndex |-> bestIndex, bestScore |-> bestScore]
  ELSE LET score == PhraseScore(phr[i + 1], tags) IN
       IF score > bestScore
       THEN MatchLoop(phr, tags, i + 1, i, score)
       ELSE MatchLoop(phr, tags, i + 1, bestIndex, bestScore)

\* a faulty variant of MatchFrom: bestIndex starts at 0 instead of -1
MatchFromZero(phr, tags) == MatchLoop(phr, tags, 0, 0, 0)

\* let bestIndex = -1; let bestScore = 0; the loop; bestScore is what line 93 logs
MatchFrom(phr, tags) == MatchLoop(phr, tags, 0, -1, 0)

(***************************************************************************)
(* extractTags, src/lib/claude.ts lines 26-63.                             *)
(***************************************************************************)
Fulfilled(v) == [outcome |-> "fulfilled", value |-> v]
Rejected == [outcome |-> "rejected", value |-> <<>>]
Returned(v) == [threw |-> FALSE, value |-> v]
Thrown == [threw |-> TRUE, value |-> <<>>]

\* a faulty variant of extractTagsBegin: the request is issued before the credential is looked at
extractTagsBeginAlways(keySet) == [request |-> TRUE]

\* lines 28-40: with no credential the call returns [] before any request
extractTagsBegin(keySet) == [request |-> keySet]

RECURSIVE FilterLoop(_, _, _, _)

\* tags.filter(t => typeof t === 'string' && TAG_SET.has(t)), from element k on
FilterLoop(items, tagSet, k, acc) ==
  IF k > Len(items) THEN acc
  ELSE FilterLoop(items, tagSet, k + 1,
                  IF items[k].type = "string" /\ items[k].str \in tagSet
                  THEN Append(acc, items[k])
                  ELSE acc)

\* a faulty variant of ValidTags: membership is tested on the lowercased string
RECURSIVE FilterLoopFolded(_, _, _, _)
FilterLoopFolded(items, tagSet, k, acc) ==
  IF k > Len(items) THEN acc
  ELSE FilterLoopFolded(items, tagSet, k + 1,
                  IF items[k].type = "string" /\ toLowerCase(items[k].str) \in tagSet
                  THEN Append(acc, items[k])
                  ELSE acc)

ValidTagsFolded(items, tagSet) == FilterLoopFolded(items, tagSet, 1, <<>>)

\* a faulty variant of ValidTags: a tag already kept is not kept again
RECURSIVE FilterLoopDedup(_, _, _, _)
FilterLoopDedup(items, tagSet, k, acc) ==
  IF k > Len(items) THEN acc
  ELSE FilterLoopDedup(items, tagSet, k + 1,
                  IF /\ items[k].type = "string"
                     /\ items[k].str \in tagSet
                     /\ \A j \in DOMAIN acc : acc[j] # items[k]
                  THEN Append(acc, items[k])
                  ELSE acc)

ValidTagsDedup(items, tagSet) == FilterLoopDedup(items, tagSet, 1, <<>>)

\* lines 52-54
ValidTags(items, tagSet) == FilterLoop(items, tagSet, 1, <<>>)

\* lines 35-57, the try block from the point where the awaited request settles
TryBody(resp, tagSet) ==
  IF resp.status # "ok" THEN Thrown                \* the awaited promise rejected
  ELSE IF Len(resp.content) = 0 THEN Thrown        \* content[0] is undefined
  ELSE LET text == IF resp.content[1].type = "text"
                   THEN resp.content[1].text
                   ELSE <<>>
           tags == JSONParse(text)
       IN IF ~tags.ok THEN Thrown                  \* SyntaxError
          ELSE IF tags.v.type # "array" THEN Returned(<<>>)
          ELSE Returned(ValidTags(tags.v.items, tagSet))

\* a faulty variant of extractTagsResume: no catch block around the try body
extractTagsResumeNoCatch(resp, tagSet) ==
  LET r == TryBody(resp, tagSet) IN
  IF r.threw THEN Rejected ELSE Fulfilled(r.value)

\* lines 27, 59-62: whatever the try block throws is caught and [] returned
extractTagsResume(resp, tagSet) ==
  LET r == TryBody(resp, tagSet) IN
  IF r.threw THEN Fulfilled(<<>>) ELSE Fulfilled(r.value)

\* the string[] the caller holds: the strings of the returned values
TagStrings(vals) == [k \in 1..Len(vals) |-> vals[k].str]


(***************************************************************************)
(* The fuzzy fallback matcher of spec.md section 4.3: token overlap        *)
(* between the normalised query text and each normalised phrase, argmax,   *)
(* first phrase on ties; it never reports "no match".                      *)
(***************************************************************************)
\* where the word starting at a ends
WordEnd(s, a) ==
  CHOOSE b \in a..Len(s) :
    /\ \A k \in a..b : s[k] # " "
    /\ (b = Len(s) \/ s[b + 1] = " ")

\* the words of s: its maximal runs of non-space characters
Words(s) ==
  { SubSeq(s, a, WordEnd(s, a)) :
      a \in { k \in 1..Len(s) : s[k] # " " /\ (k = 1 \/ s[k - 1] = " ") } }

FuzzyScore(text, phrase) ==
  Cardinality(Words(toLowerCase(text)) \cap Words(toLowerCase(phrase)))

RECURSIVE FuzzyLoop(_, _, _, _, _)
FuzzyLoop(phr, text, i, bestIndex, bestScore) ==
  IF ~(i < Len(phr)) THEN bestIndex
  ELSE LET score == FuzzyScore(text, phr[i + 1]) IN
       IF score > bestScore
       THEN FuzzyLoop(phr, text, i + 1, i, score)
       ELSE FuzzyLoop(phr, text, i + 1, bestIndex, bestScore)

matchFuzzy(phr, text) == FuzzyLoop(phr, text, 0, 0, 0)

(***************************************************************************)
(* Inputs.                                                                 *)
(***************************************************************************)
Str_rain == <<"r","a","i","n">>
Str_piano == <<"p","i","a","n","o">>
Str_sad == <<"s","a","d">>
Str_space == <<"s","p","a","c","e">>
Str_guitar == <<"g","u","i","t","a","r">>
Str_night == <<"n","i","g","h","t">>
Str_Piano == <<"P","i","a","n","o">>
Str_RAIN == <<"R","A","I","N">>

\* the phrase bank of spec.md section 8, and a phrase holding both "sad" and "rain"
ExampleBank ==
  << <<"r","a","i","n","y"," ","p","i","a","n","o"," ","n","i","g","h","t">>,
     <<"u","p","b","e","a","t"," ","g","u","i","t","a","r"," ","j","a","m">> >>

ServedBank ==
  Append(ExampleBank,
         <<"s","a","d"," ","r","a","i","n","y"," ","e","v","e","n","i","n","g">>)

\* phrase banks the matcher is run on directly: empty, the example, mixed case
\* with a tie between two phrases, and one whose best phrase comes last
Banks ==
  { <<>>,
    ExampleBank,
    << <<"U","p","b","e","a","t"," ","G","u","i","t","a","r">>,
       <<"R","A","I","N","Y"," ","P","I","A","N","O">>,
       <<"r","a","i","n","y"," ","p","i","a","n","o">> >>,
    << <<"g","u","i","t","a","r">>,
       <<"R","a","i","n">>,
       <<"n","i","g","h","t"," ","r","a","i","n">> >> }

\* tags a caller may hand to the matcher: vocabulary tags, recased ones, the empty string
TagPool ==
  { Str_rain, Str_piano, Str_space, Str_guitar, Str_night, Str_Piano, Str_RAIN, <<>> }

TagLists == UNION { [1..n -> TagPool] : n \in 0..MaxTags }

\* query texts
Prompts ==
  { <<"r","a","i","n","y"," ","d","a","y"," ","s","a","d","n","e","s","s">>,
    <<"G","u","i","t","a","r"," ","J","a","m">> }

\* the tokens a model answer is made of when answers are drawn exhaustively
TextTokens ==
  { Punct("["), Punct("]"), Punct(","), Punct("null"),
    StrTok(Str_rain), StrTok(Str_piano), StrTok(Str_Piano), StrTok(Str_RAIN) }

Texts == UNION { [1..n -> TextTokens] : n \in 0..MaxTokens }

TextBlock(text) == [type |-> "text", text |-> text]
ToolUseBlock == [type |-> "tool_use", text |-> <<>>]
Message(content) == [status |-> "ok", content |-> content]

NoResponse == [status |-> "none", content |-> <<>>]
RespRejected == [status |-> "error", content |-> <<>>]
RespEmptyContent == Message(<<>>)
RespToolUse == Message(<<ToolUseBlock, TextBlock(<<Punct("["), StrTok(Str_rain), Punct("]")>>)>>)
RespInvalidJSON == Message(<<TextBlock(<<Punct("["), StrTok(Str_rain)>>)>>)
RespNotArray == Message(<<TextBlock(<<Punct("{"), Punct("}")>>)>>)
RespEmptyArray == Message(<<TextBlock(<<Punct("["), Punct("]")>>)>>)
RespRainPiano ==
  Message(<<TextBlock(<<Punct("["), StrTok(Str_rain), Punct(","), StrTok(Str_piano), Punct("]")>>)>>)
RespSadRain ==
  Message(<<TextBlock(<<Punct("["), StrTok(Str_sad), Punct(","), StrTok(Str_rain), Punct("]")>>)>>)
RespSpace == Message(<<TextBlock(<<Punct("["), StrTok(Str_space), Punct("]")>>)>>)
RespMixed ==
  Message(<<TextBlock(<<Punct("["), StrTok(Str_Piano), Punct(","), StrTok(Str_rain), Punct(","),
                        Punct("number"), Punct(","), StrTok(Str_rain), Punct("]")>>)>>)

\* the outcomes of the model call that concurrent queries are run against:
\* three failures, the empty array, and four arrays of tags
Responses ==
  { RespRejected, RespInvalidJSON, RespNotArray,
    RespEmptyArray, RespRainPiano, RespSadRain, RespSpace, RespMixed }

\* every outcome with an answer of at most MaxTokens tokens
AllResponses ==
  { RespRejected, RespEmptyContent, RespToolUse } \cup { Message(<<TextBlock(x)>>) : x \in Texts }


(***************************************************************************)
(* State.                                                                  *)
(***************************************************************************)
VARIABLES
  TAG_SET,    \* the module-level Set of line 13
  apiKey,     \* whether process.env.ANTHROPIC_API_KEY is set
  phrases,    \* what getPhrases() returns: the phrase bank, loaded once
  queries,    \* per query in flight: its stage and what it holds
  call        \* a direct call of findClosestPhraseByTags: its argument and result

vars == <<TAG_SET, apiKey, phrases, queries, call>>

Queries == 1..NQueries

\* a query before search() is called
IdleQuery ==
  [ stage |-> "initial",       \* initial, awaiting, extracted, done
    prompt |-> <<>>,           \* the query text
    keySet |-> FALSE,          \* the credential as extractTags found it
    requests |-> 0,            \* model requests this call has issued
    response |-> NoResponse,   \* how the awaited model request settled
    outcome |-> "pending",     \* the promise extractTags returned
    tags |-> <<>>,             \* the value it resolved to
    matched |-> -1,            \* what findClosestPhraseByTags returned, when called
    path |-> "none",           \* none, tags, fuzzy
    phraseIndex |-> -1,        \* the phrase the query resolved to
    status |-> "none" ]        \* none, ranked, error

IdleCall == [done |-> FALSE, tags |-> <<>>, bestIndex |-> -1, bestScore |-> 0]

\* a faulty variant of findClosestPhraseByTags: bestScore is returned for bestIndex
findClosestPhraseByTagsScore(tags) == MatchFrom(phrases, tags).bestScore

\* export function findClosestPhraseByTags(tags): the index it returns
findClosestPhraseByTags(tags) == MatchFrom(phrases, tags).bestIndex

(***************************************************************************)
(* Actions.                                                                *)
(***************************************************************************)
\* search({text}) runs up to the await inside extractTags(text)
Search(q) ==
  /\ queries[q].stage = "initial"
  /\ \E text \in Prompts :
       LET b == extractTagsBegin(apiKey) IN
       queries' = [queries EXCEPT ![q] =
         IF b.request
         THEN [@ EXCEPT !.stage = "awaiting", !.prompt = text, !.keySet = apiKey,
                        !.requests = @ + 1]
         ELSE [@ EXCEPT !.stage = "extracted", !.prompt = text, !.keySet = apiKey,
                        !.outcome = "fulfilled", !.tags = <<>>]]
  /\ UNCHANGED <<TAG_SET, apiKey, phrases, call>>

\* a faulty variant of Resume: the filtered list is kept in a module-level
\* variable, so the call that returns last overwrites what the others returned
ResumeShared(q, answers) ==
  /\ queries[q].stage = "awaiting"
  /\ \E resp \in answers :
       LET r == extractTagsResume(resp, TAG_SET) IN
       queries' = [p \in Queries |->
         IF p = q
         THEN [queries[p] EXCEPT !.stage = "extracted", !.response = resp,
                                 !.outcome = r.outcome, !.tags = r.value]
         ELSE IF queries[p].stage = "extracted"
         THEN [queries[p] EXCEPT !.tags = r.value]
         ELSE queries[p]]
  /\ UNCHANGED <<TAG_SET, apiKey, phrases, call>>

\* the model service answers, or the request fails: client.messages.create
\* settles and extractTags runs from its await to its return
Resume(q, answers) ==
  /\ queries[q].stage = "awaiting"
  /\ \E resp \in answers :
       LET r == extractTagsResume(resp, TAG_SET) IN
       queries' = [queries EXCEPT ![q] =
         [@ EXCEPT !.stage = "extracted", !.response = resp,
                   !.outcome = r.outcome, !.tags = r.value]]
  /\ UNCHANGED <<TAG_SET, apiKey, phrases, call>>

\* spec.md 4.5 stage 2: the tag matcher when tags were extracted and one of them
\* occurs in a phrase, else the fallback matcher on the raw text
ResolvePhrase(tags, text) ==
  LET m == IF tags # <<>> THEN findClosestPhraseByTags(tags) ELSE -1 IN
  IF m # -1
  THEN [matched |-> m, path |-> "tags", phraseIndex |-> m]
  ELSE [matched |-> m, path |-> "fuzzy", phraseIndex |-> matchFuzzy(phrases, text)]

\* spec.md 4.5 stage 5: the phrase's vector is looked up and the catalog ranked
Rank(phraseIndex) ==
  IF phraseIndex \in 0..(Len(phrases) - 1) THEN "ranked" ELSE "error"

\* search() continues once extractTags has settled; spec.md 5: everything after
\* the tag-extraction call is one synchronous computation
Continue(q) ==
  /\ queries[q].stage = "extracted"
  /\ queries' = [queries EXCEPT ![q] =
       IF queries[q].outcome # "fulfilled"
       THEN [@ EXCEPT !.stage = "done", !.status = "error"]
       ELSE LET r == ResolvePhrase(TagStrings(queries[q].tags), queries[q].prompt) IN
            [@ EXCEPT !.stage = "done", !.matched = r.matched, !.path = r.path,
                      !.phraseIndex = r.phraseIndex, !.status = Rank(r.phraseIndex)]]
  /\ UNCHANGED <<TAG_SET, apiKey, phrases, call>>

\* the deployment sets or unsets the credential between requests
SetEnv ==
  /\ apiKey' = ~apiKey
  /\ UNCHANGED <<TAG_SET, phrases, queries, call>>

\* a caller hands a tag list of its own to findClosestPhraseByTags
CallMatch ==
  /\ ~call.done
  /\ \E tags \in TagLists :
       LET r == MatchFrom(phrases, tags) IN
       call' = [done |-> TRUE, tags |-> tags,
                bestIndex |-> findClosestPhraseByTags(tags), bestScore |-> r.bestScore]
  /\ UNCHANGED <<TAG_SET, apiKey, phrases, queries>>

(***************************************************************************)
(* Specifications.                                                         *)
(***************************************************************************)
Init ==
  /\ TAG_SET = NewTagSet
  /\ apiKey \in BOOLEAN
  /\ phrases = ServedBank
  /\ queries = [q \in Queries |-> IdleQuery]
  /\ call = IdleCall

Next ==
  \/ \E q \in Queries : Search(q)
  \/ \E q \in Queries : Resume(q, Responses)
  \/ \E q \in Queries : Continue(q)
  \/ SetEnv

\* concurrent queries against the served phrase bank
Spec == Init /\ [][Next]_vars

\* the event loop runs every step of the program that is ready; Resume is the
\* model service's step, and nothing obliges the service to answer
FairSpec ==
  /\ Spec
  /\ \A q \in Queries :
       /\ WF_vars(Search(q))
       /\ WF_vars(Continue(q))

\* one call of extractTags against every model answer of at most MaxTokens tokens
NextExtract ==
  \/ Search(1)
  \/ Resume(1, AllResponses)

ExtractSpec == Init /\ [][NextExtract]_vars

\* findClosestPhraseByTags called directly on every bank and tag list
InitMatch ==
  /\ TAG_SET = NewTagSet
  /\ apiKey = FALSE
  /\ phrases \in Banks
  /\ queries = [q \in Queries |-> IdleQuery]
  /\ call = IdleCall

NextMatch == CallMatch

MatchSpec == InitMatch /\ [][NextMatch]_vars


(***************************************************************************)
(* Properties.                                                             *)
(***************************************************************************)
\* tag k of the list occurs in phrase i (0-based) of the bank, letter case aside
Occurs(tags, k, i) == includes(toLowerCase(phrases[i + 1]), toLowerCase(tags[k]))

\* the number of entries of the tag list that occur in phrase i
Hits(tags, i) == Cardinality({ k \in DOMAIN tags : Occurs(tags, k, i) })

PhraseIndices == 0..(Len(phrases) - 1)

\* extractTags has returned to the query
Extracted(q) == queries[q].stage \in {"extracted", "done"}

\* the failure outcomes of a call: no credential, a rejected request, no content
\* block, a first block that is not text, a text that is not JSON, JSON that is
\* not an array
ExtractionFailed(x) ==
  \/ ~x.keySet
  \/ x.response.status # "ok"
  \/ Len(x.response.content) = 0
  \/ x.response.content[1].type # "text"
  \/ ~JSONParse(x.response.content[1].text).ok
  \/ JSONParse(x.response.content[1].text).v.type # "array"

\* C1: extractTags never raises to its caller: whatever prompt it was given and
\* however the model call ended, the promise it returned is fulfilled, and in
\* every failure outcome it is fulfilled with the empty list.
C1_NeverRaises ==
  \A q \in Queries :
    /\ Extracted(q) => queries[q].outcome = "fulfilled"
    /\ ~Extracted(q) => queries[q].outcome = "pending"
    /\ (Extracted(q) /\ ExtractionFailed(queries[q])) => queries[q].tags = <<>>

\* a call whose model answer was not valid JSON has resolved to the empty list
C1_Witness ==
  /\ queries[1].stage = "extracted"
  /\ queries[1].keySet
  /\ queries[1].response = RespInvalidJSON
  /\ queries[1].outcome = "fulfilled"
  /\ queries[1].tags = <<>>

\* C2: every element of every list extractTags returns is a string and a member
\* of the canonical vocabulary, compared case-sensitively: "Piano" and "RAIN"
\* are never returned.
C2_OnlyVocabulary ==
  \A q \in Queries : \A k \in DOMAIN queries[q].tags :
    /\ queries[q].tags[k].type = "string"
    /\ \E j \in DOMAIN TAGS : TAGS[j] = queries[q].tags[k].str
    /\ queries[q].tags[k].str \notin {Str_Piano, Str_RAIN}

\* the model answered ["Piano","rain"] and only "rain" was returned
C2_Witness ==
  /\ queries[1].stage = "extracted"
  /\ queries[1].response =
       Message(<<TextBlock(<<Punct("["), StrTok(Str_Piano), Punct(","),
                             StrTok(Str_rain), Punct("]")>>)>>)
  /\ queries[1].tags = <<JString(Str_rain)>>

\* C3: the matcher scores a phrase by the number of entries of the tag list that
\* occur in it; when some phrase scores above 0 it returns a phrase of maximum
\* score, the first such phrase in bank order; the example bank with
\* ["rain","piano"] gives index 0 with score 2.
C3_BestFirst ==
  call.done =>
    /\ (\E i \in PhraseIndices : Hits(call.tags, i) > 0) =>
         /\ call.bestIndex \in PhraseIndices
         /\ call.bestScore = Hits(call.tags, call.bestIndex)
         /\ \A j \in PhraseIndices :
              /\ Hits(call.tags, j) <= call.bestScore
              /\ Hits(call.tags, j) = call.bestScore => call.bestIndex <= j
    /\ (phrases = ExampleBank /\ call.tags = <<Str_rain, Str_piano>>) =>
         (call.bestIndex = 0 /\ call.bestScore = 2)

\* the example of the claim
C3_Witness ==
  /\ call.done
  /\ phrases = ExampleBank
  /\ call.tags = <<Str_rain, Str_piano>>
  /\ call.bestIndex = 0
  /\ call.bestScore = 2

\* C4: the matcher returns -1 exactly when no tag of the list occurs in any
\* phrase; the empty tag list and the empty bank give -1; any other result is an
\* index of the bank whose phrase holds at least one tag of the list.
C4_NoMatchSentinel ==
  call.done =>
    /\ call.bestIndex = -1 <=>
         (\A i \in PhraseIndices : \A k \in DOMAIN call.tags : ~Occurs(call.tags, k, i))
    /\ call.tags = <<>> => call.bestIndex = -1
    /\ phrases = <<>> => call.bestIndex = -1
    /\ call.bestIndex # -1 =>
         /\ call.bestIndex \in PhraseIndices
         /\ \E k \in DOMAIN call.tags : Occurs(call.tags, k, call.bestIndex)

\* ["space"] against the example bank: no match
C4_Witness ==
  /\ call.done
  /\ phrases = ExampleBank
  /\ call.tags = <<Str_space>>
  /\ call.bestIndex = -1

NoTagOccurs(tags) ==
  \A i \in PhraseIndices : \A k \in DOMAIN tags : ~Occurs(tags, k, i)

\* some phrase holds every tag of a non-empty list
AllOccurInSome(tags) ==
  tags # <<>> /\ \E i \in PhraseIndices : \A k \in DOMAIN tags : Occurs(tags, k, i)

\* C6: search always works: when extraction returned no tag (as in every failure
\* of the model call), or the matcher returned -1 (no tag occurs in any phrase),
\* the phrase comes from the fallback matcher and is an index of the bank; when
\* the tags all occur in some phrase it comes from the tag matcher; and every
\* query that ends, ends ranked and not in error.
C6_SearchAlwaysWorks ==
  \A q \in Queries :
    LET x == queries[q]
        tags == TagStrings(x.tags)
    IN x.stage = "done" =>
         /\ x.status = "ranked"
         /\ x.phraseIndex \in PhraseIndices
         /\ (tags = <<>> \/ x.matched = -1 \/ NoTagOccurs(tags)) => x.path = "fuzzy"
         /\ AllOccurInSome(tags) => (x.path = "tags" /\ x.matched = x.phraseIndex)

\* one query ended ranked through the fallback after a rejected request, another
\* through the tag matcher
C6_Witness ==
  /\ queries[1].stage = "done"
  /\ queries[1].response = RespRejected
  /\ queries[1].path = "fuzzy"
  /\ queries[1].status = "ranked"
  /\ queries[2].stage = "done"
  /\ queries[2].response = RespSadRain
  /\ queries[2].path = "tags"
  /\ queries[2].phraseIndex = 2


\* the uppercase of each lowercase letter
UpperOf == [c \in { LowerChars[k] : k \in DOMAIN LowerChars } |->
              UpperChars[CHOOSE k \in DOMAIN LowerChars : LowerChars[k] = c]]

ToUpperChar(c) == IF c \in DOMAIN UpperOf THEN UpperOf[c] ELSE c
SwapCaseChar(c) == IF c \in DOMAIN UpperOf THEN UpperOf[c] ELSE ToLowerChar(c)

\* every string of the list with its letters in lower case, in upper case, swapped
LowerAll(strs) == [k \in 1..Len(strs) |-> toLowerCase(strs[k])]
UpperAll(strs) == [k \in 1..Len(strs) |-> [j \in 1..Len(strs[k]) |-> ToUpperChar(strs[k][j])]]
SwapAll(strs) == [k \in 1..Len(strs) |-> [j \in 1..Len(strs[k]) |-> SwapCaseChar(strs[k][j])]]

\* C7: tag matching is case-insensitive on both sides: recasing the letters of
\* the tags (to lower case, to upper case, or each letter to its other case)
\* and, independently, those of the phrases leaves the returned index unchanged.
C7_CaseInsensitive ==
  call.done =>
    LET t0 == call.tags
        tl == LowerAll(call.tags)
        tu == UpperAll(call.tags)
        ts == SwapAll(call.tags)
        p0 == phrases
        pl == LowerAll(phrases)
        pu == UpperAll(phrases)
        ps == SwapAll(phrases)
    IN \A ph \in {p0, pl, pu, ps} : \A tg \in {t0, tl, tu, ts} :
         MatchFrom(ph, tg).bestIndex = call.bestIndex

\* "RAIN" and "Piano" against the lowercase example bank match phrase 0
C7_Witness ==
  /\ call.done
  /\ phrases = ExampleBank
  /\ call.tags = <<Str_RAIN, Str_Piano>>
  /\ call.bestIndex = 0
  /\ call.bestScore = 2

\* C8: a call that found the credential missing resolves to the empty list and
\* never issues a request to the model service.
C8_NoRequestWithoutKey ==
  \A q \in Queries :
    (queries[q].stage # "initial" /\ ~queries[q].keySet) =>
      /\ queries[q].requests = 0
      /\ queries[q].response = NoResponse
      /\ queries[q].outcome = "fulfilled"
      /\ queries[q].tags = <<>>

\* a call that found no credential has ended without a request, while the
\* credential is set by now and another call has issued its request
C8_Witness ==
  /\ queries[1].stage = "done"
  /\ ~queries[1].keySet
  /\ queries[1].requests = 0
  /\ apiKey
  /\ queries[2].stage = "awaiting"
  /\ queries[2].requests = 1

\* what a call returns when run alone on the credential and model answer it had
AloneTags(x) ==
  IF ~x.keySet THEN <<>> ELSE extractTagsResume(x.response, NewTagSet).value

\* what the matcher returns when run alone on a tag list, against the bank as loaded
AloneMatch(tags) ==
  IF tags = <<>> THEN -1 ELSE MatchFrom(ServedBank, tags).bestIndex

\* C9: concurrent queries are independent: in every interleaving each call holds
\* exactly what it returns run alone on its own input and model answer, whatever
\* happened to the other calls, and the vocabulary, the phrase bank and the
\* caller's tag list stay as they were.
C9_Independent ==
  /\ TAG_SET = NewTagSet
  /\ phrases = ServedBank
  /\ \A q \in Queries :
       /\ Extracted(q) =>
            /\ queries[q].outcome = "fulfilled"
            /\ queries[q].tags = AloneTags(queries[q])
       /\ queries[q].stage = "done" =>
            queries[q].matched = AloneMatch(TagStrings(queries[q].tags))

\* one call failed on a rejected request, the other returned its tags and matched
C9_Witness ==
  /\ queries[1].stage = "done"
  /\ queries[1].response = RespRejected
  /\ queries[1].tags = <<>>
  /\ queries[2].stage = "done"
  /\ queries[2].response = RespRainPiano
  /\ queries[2].tags = <<JString(Str_rain), JString(Str_piano)>>
  /\ queries[2].matched = 0

\* the array the model answered with, when it answered with one
AnsweredArray(x) ==
  IF /\ x.response.status = "ok"
     /\ Len(x.response.content) > 0
     /\ x.response.content[1].type = "text"
     /\ JSONParse(x.response.content[1].text).ok
     /\ JSONParse(x.response.content[1].text).v.type = "array"
  THEN [is |-> TRUE, items |-> JSONParse(x.response.content[1].text).v.items]
  ELSE [is |-> FALSE, items |-> <<>>]

InVocabulary(v) == v.type = "string" /\ \E j \in DOMAIN TAGS : TAGS[j] = v.str

\* C10: when the model answers with a JSON array, extractTags returns exactly
\* the subsequence of its in-vocabulary strings, in order and with repeats kept;
\* and a repeated tag counts once per occurrence in the matcher's phrase score.
C10_OrderedSubsequence ==
  \A q \in Queries :
    LET a == AnsweredArray(queries[q]) IN
    (Extracted(q) /\ a.is) =>
      /\ queries[q].tags = SelectSeq(a.items, InVocabulary)
      /\ \A i \in PhraseIndices :
           PhraseScore(phrases[i + 1], TagStrings(queries[q].tags))
             = Hits(TagStrings(queries[q].tags), i)

\* the model answered ["rain","rain"]: both are returned and phrase 0 scores 2
C10_Witness ==
  /\ queries[1].stage = "extracted"
  /\ queries[1].response =
       Message(<<TextBlock(<<Punct("["), StrTok(Str_rain), Punct(","),
                             StrTok(Str_rain), Punct("]")>>)>>)
  /\ queries[1].tags = <<JString(Str_rain), JString(Str_rain)>>
  /\ PhraseScore(phrases[1], TagStrings(queries[1].tags)) = 2

=============================================================================
